---- MODULE Spec2Model ----
(***************************************************************************)
(* Model of experiments/heap/src/main.rs: the experimental heap storage    *)
(* engine (Page::view, BufferPool::open, Drop for BufferPool, Db, open,    *)
(* main) together with the two backing files "log" and "heap".             *)
(***************************************************************************)
EXTENDS Integers, Sequences, FiniteSets, TLC

VARIABLES
    pc,                   \* position of the process in open / drop
    build,                \* "debug" or "release" (overflow checks on or off)
    outcome,              \* how the last call ended: "none", "ok", "panic"
    session,              \* number of processes started so far
    cache_size_in_bytes,  \* argument of open, a usize
    buffer_pool_size,     \* BufferPool.buffer_pool_size, a usize
    idx,                  \* loop index of the mmap / munmap loops
    buffer_pool_pointers, \* BufferPool.buffer_pool_pointers
    mapped,               \* addresses of the regions mapped in this process
    next_tx,              \* BufferPool.next_tx
    next_page,            \* BufferPool.next_page
    startup_failure,      \* which startup call the system failed, if any
    log_file,             \* the file "log": "absent" or "present"
    heap_file,            \* the file "heap": "absent" or "present"
    log_open,             \* the process holds the File log
    heap_open,            \* the process holds the File heap
    trace,                \* system calls issued by drop, in order
    reported,             \* number of "failed to unmap memory" lines printed
    calls,                \* the Db::set / Db::get calls made so far
    log_recs,             \* the records held by the file "log"
    heap_pages,           \* the pages held by the file "heap"
    page,                 \* Page.data, the bytes handed to Page::view
    page_src,             \* the entries the page was written from
    view_pc,              \* "raw", "damaged" or "viewed"
    view_result,          \* what Page::view did with the page
    region_len,           \* the length each mapped address was mapped with
    unmap_len             \* the lengths passed to munmap by drop, in order

procVars == <<pc, build, outcome, session, startup_failure, calls>>

poolVars == <<cache_size_in_bytes, buffer_pool_size, idx, buffer_pool_pointers,
              mapped, next_tx, next_page, trace, reported>>

fileVars == <<log_file, heap_file, log_open, heap_open>>

viewVars == <<page, page_src, view_pc, view_result>>

storeVars == <<log_recs, heap_pages>>

lenVars == <<region_len, unmap_len>>

vars == <<procVars, poolVars, fileVars, storeVars, viewVars, lenVars>>

----------------------------------------------------------------------------
(* usize arithmetic.  A usize is the set of the positions of its one bits, *)
(* so that all 64 bits are kept.                                           *)

USIZE_BITS == 64

SIZE_CLASSES == 6

Max(S) == CHOOSE x \in S : \A y \in S : y <= x

usize_lt(a, b) ==
    /\ a # b
    /\ Max((a \ b) \cup (b \ a)) \in b

usize_ge(a, b) == ~usize_lt(a, b)

usize_max(a, b) == IF usize_lt(a, b) THEN b ELSE a

\* 64 * 1024
KiB64 == {16}

\* 1024 * 1024, the budget main asks for
MiB1 == {20}

\* usize::next_power_of_two overflows when self > 1 << 63
npt_overflows(x) ==
    /\ Cardinality(x) > 1
    /\ Max(x) = USIZE_BITS - 1

\* usize::next_power_of_two; on overflow the release build wraps to 0
next_power_of_two(x) ==
    IF x = {} THEN {0}
    ELSE IF Cardinality(x) = 1 THEN x
    ELSE IF npt_overflows(x) THEN {}
    ELSE {Max(x) + 1}

pool_size_no_floor(c) == next_power_of_two(c)

\* let buffer_pool_size = max(64 * 1024, cache_size.next_power_of_two())
pool_size(c) == usize_max(KiB64, next_power_of_two(c))

----------------------------------------------------------------------------
(* Pointers: 0 is null, -1 is MAP_FAILED, a positive number is an address. *)

NULL == 0

MAP_FAILED == -1

MmapResults == {NULL, MAP_FAILED, 1}

ptr_is_bad_null_only(ptr) == ptr = NULL

\* if ptr.is_null() || ptr == libc::MAP_FAILED
ptr_is_bad(ptr) == ptr = NULL \/ ptr = MAP_FAILED

\* the address the kernel hands out: one that is not mapped yet
fresh_addr == CHOOSE a \in 1..(SIZE_CLASSES + 1) : a \notin mapped

NoPointers == [i \in 0..(SIZE_CLASSES - 1) |-> NULL]

----------------------------------------------------------------------------
(* Bounds of the model.                                                    *)

MaxSessions == 2

MaxLog == 3

MaxEntries == 2

\* the longest page of MaxEntries entries with keys and values of one byte
MaxPageLen == 8 + 8 * (MaxEntries + 2) + 8 * MaxEntries + 2 * MaxEntries + 2

\* the cache budgets a caller passes to open
Budgets ==
    { {}, {0}, 0..15, {16}, {0, 16}, MiB1, {3, 20},
      {USIZE_BITS - 1}, {0, USIZE_BITS - 1}, 0..(USIZE_BITS - 1) }

\* the budgets of the lifecycle runs: the one of main and one that overflows
PoolBudgets == {MiB1, {0, USIZE_BITS - 1}}

Keys == {"a"}

Values == {"a", "b"}

----------------------------------------------------------------------------------------------------------------------------------------------
(* Log records and page updates, and the contents of the two files.        *)

NotFound == "<none>"

PageIds == {0}

\* the page a key lives on
PageOf(key) == 0

\* enum PageUpdate { Set { key, value }, Del { key } }
Set(key, value) == [type |-> "Set", key |-> key, value |-> value]

Del(key) == [type |-> "Del", key |-> key, value |-> NotFound]

PageUpdates == {Set(k, v) : k \in Keys, v \in Values} \cup {Del(k) : k \in Keys}

\* LogRecord::Update { lsn, tx, pid, redo, undo, previous_lsn }
Update(lsn, tx, pid, redo, undo, previous_lsn) ==
    [type |-> "Update", lsn |-> lsn, tx |-> tx, pid |-> pid, redo |-> redo,
     undo |-> undo, previous_lsn |-> previous_lsn]

\* LogRecord::Commit { tx, last_lsn }
Commit(tx, last_lsn) == [type |-> "Commit", tx |-> tx, last_lsn |-> last_lsn]

EmptyHeap == [pid \in PageIds |-> [k \in Keys |-> NotFound]]

\* a page with one PageUpdate applied
ApplyUpdate(pages, pid, u) == [pages EXCEPT ![pid][u.key] = u.value]

Committed(recs) ==
    {recs[i].tx : i \in {j \in DOMAIN recs : recs[j].type = "Commit"}}

TxsOf(recs) == {recs[i].tx : i \in DOMAIN recs}

\* the redo payloads of the Update records of the transactions txs, in order
RECURSIVE RedoOf(_, _, _)
RedoOf(recs, txs, pages) ==
    IF recs = <<>> THEN pages
    ELSE LET r == Head(recs) IN
         RedoOf(Tail(recs), txs,
                IF r.type = "Update" /\ r.tx \in txs
                THEN ApplyUpdate(pages, r.pid, r.redo)
                ELSE pages)

UpdatesOf(recs) == SelectSeq(recs, LAMBDA r : r.type = "Update")

LastLsnOf(recs, tx) ==
    LET mine == SelectSeq(recs, LAMBDA r : r.type = "Update" /\ r.tx = tx) IN
    IF mine = <<>> THEN 0 ELSE mine[Len(mine)].lsn

\* the records a transaction manager appends next to recs: an update of the
\* running transaction, its commit, or the first update of a new one
NextRecords(recs) ==
    LET last    == IF recs = <<>> THEN 0 ELSE recs[Len(recs)].tx
        running == IF recs # <<>> /\ recs[Len(recs)].type = "Update"
                   THEN {last} ELSE {}
        fresh   == IF TxsOf(recs) = {} THEN 1 ELSE Max(TxsOf(recs)) + 1
        lsn     == Len(UpdatesOf(recs)) + 1
        upd(tx, redo) ==
            LET cur == RedoOf(recs, Committed(recs) \cup {tx},
                              EmptyHeap)[PageOf(redo.key)][redo.key] IN
            Update(lsn, tx, PageOf(redo.key), redo,
                   IF cur = NotFound THEN Del(redo.key)
                   ELSE Set(redo.key, cur),
                   LastLsnOf(recs, tx))
    IN  {upd(tx, redo) : tx \in running \cup {fresh}, redo \in PageUpdates}
        \cup {Commit(tx, LastLsnOf(recs, tx)) : tx \in running}

RECURSIVE LogsOfLen(_)
LogsOfLen(n) ==
    IF n = 0 THEN {<<>>}
    ELSE UNION {{Append(l, r) : r \in NextRecords(l)} : l \in LogsOfLen(n - 1)}

\* the logs a store can hold; every prefix of one is one of them
Logs == UNION {LogsOfLen(n) : n \in 0..MaxLog}

\* the heap after the pages touched by the first m updates were flushed
FlushedHeap(recs, m) ==
    LET upd == UpdatesOf(recs) IN
    RedoOf(SubSeq(upd, 1, m), TxsOf(recs), EmptyHeap)

----------------------------------------------------------------------------
(* Pages: [header | key lengths | value lengths | keys | values].          *)

\* the little-endian bytes of n < 2^24 in a field of w bytes
le_bytes(n, w) ==
    [i \in 1..w |-> IF i <= 3 THEN (n \div (256 ^ (i - 1))) % 256 ELSE 0]

\* u32::from_le_bytes([b0, b1, b2, b3])
from_le_bytes(b0, b1, b2, b3) == b0 + 256 * b1 + 65536 * b2 + 16777216 * b3

RECURSIVE Flatten(_)
Flatten(seqs) == IF seqs = <<>> THEN <<>> ELSE Head(seqs) \o Flatten(Tail(seqs))

RECURSIVE SumLen(_)
SumLen(seqs) == IF seqs = <<>> THEN 0 ELSE Len(Head(seqs)) + SumLen(Tail(seqs))

\* the bytes of a page holding the boundary keys lo, hi and the entries
\* keys[i] -> values[i]
Encode(src) ==
    LET n       == Len(src.keys)
        allkeys == <<src.lo, src.hi>> \o src.keys
    IN  <<IF src.is_leaf THEN 1 ELSE 0>>
        \o le_bytes(n, 3)
        \o le_bytes(SumLen(allkeys), 4)
        \o Flatten([i \in 1..(n + 2) |-> le_bytes(Len(allkeys[i]), 8)])
        \o Flatten([i \in 1..n |-> le_bytes(Len(src.values[i]), 8)])
        \o Flatten(allkeys)
        \o Flatten(src.values)

PageViewOf(kind, is_leaf, child_count, oob) ==
    [kind |-> kind, is_leaf |-> is_leaf, child_count |-> child_count,
     lo |-> <<>>, hi |-> <<>>, keys |-> <<>>, values |-> <<>>, oob |-> oob]

NoView == PageViewOf("none", FALSE, 0, FALSE)

\* the offsets Page::view computes from self.data.as_ptr()
key_length_base == 5

val_length_base(child_count) == key_length_base + (2 * 8) + (child_count * 8)

keys_base(child_count) == val_length_base(child_count) + child_count * 8

val_base(child_count, key_length_sum) == keys_base(child_count) + key_length_sum

\* key_lengths[i]: the u64 at key_length_base + 8 * i, little-endian on the
\* targets of the crate; its upper four bytes are zero in the pages modelled
key_lengths(data, i) ==
    LET at == key_length_base + 8 * i IN
    from_le_bytes(data[at + 1], data[at + 2], data[at + 3], data[at + 4])

\* let lo_len = key_lengths[0] as usize
lo_len(data) == key_lengths(data, 0)

\* let hi_len = key_lengths[1] as usize
hi_len(data) == key_lengths(data, 1)

\* Page::view.  data[i] of the code is data[i + 1] here.  Indexing
\* self.data[0..=7] panics on a shorter page.  The pointers and the reads of
\* key_lengths[0] and key_lengths[1] are unchecked: outside the buffer the
\* call either faults or carries on with whatever it read, which it never
\* uses.
Page_view(data, fault) ==
    IF Len(data) < 8 THEN PageViewOf("panic", FALSE, 0, FALSE)
    ELSE LET is_leaf        == data[1] = 0
             child_count    == from_le_bytes(data[2], data[3], data[4], 0)
             key_length_sum ==
                 from_le_bytes(data[5], data[6], data[7], data[8])
             oob == \/ val_base(child_count, key_length_sum) > Len(data)
                    \/ key_length_base + (2 * 8) > Len(data)
         IN  IF oob /\ fault
             THEN PageViewOf("fault", FALSE, 0, TRUE)
             ELSE PageViewOf("view", is_leaf, child_count, oob)

\* Page::view is called on the page
View(fault) ==
    /\ view_pc \in {"raw", "damaged"}
    /\ view_result' = Page_view(page, fault)
    /\ view_pc' = "viewed"
    /\ UNCHANGED <<page, page_src, procVars, poolVars, fileVars, storeVars,
                   lenVars>>

\* the page lost its tail: n bytes of it were written
Truncate(n) ==
    /\ view_pc = "raw"
    /\ n < Len(page)
    /\ page' = SubSeq(page, 1, n)
    /\ view_pc' = "damaged"
    /\ UNCHANGED <<page_src, view_result, procVars, poolVars, fileVars,
                   storeVars, lenVars>>

\* one byte of the header changed: at 1 the child count, at 4 the key
\* length sum
Damage(at, byte) ==
    /\ view_pc = "raw"
    /\ page[at + 1] # byte
    /\ page' = [page EXCEPT ![at + 1] = byte]
    /\ view_pc' = "damaged"
    /\ UNCHANGED <<page_src, view_result, procVars, poolVars, fileVars,
                   storeVars, lenVars>>

KeyBytes == {<<97>>, <<98>>}

ValueBytes == {<<>>, <<97>>}

\* the well-formed pages with at most MaxEntries entries
PageSources ==
    UNION {[is_leaf : BOOLEAN, lo : {<<>>, <<97>>}, hi : {<<>>, <<98>>},
            keys : [1..n -> KeyBytes], values : [1..n -> ValueBytes]]
           : n \in 0..MaxEntries}

----------
(* The process: open, BufferPool::open, Db::set, Db::get, drop.            *)

HandleLive == pc \in {"ready", "drop_log", "drop_heap", "munmap", "dropped"}

\* a panic before a BufferPool exists: the locals log and heap are dropped,
\* the regions mapped so far are not released, the process ends
PanicInOpen ==
    /\ pc' = "exited"
    /\ outcome' = "panic"
    /\ log_open' = FALSE
    /\ heap_open' = FALSE

\* fn open(cache_size_in_bytes: usize) -> Db, called by main
open(c) ==
    /\ pc \in {"idle", "exited"}
    /\ session < MaxSessions
    /\ session' = session + 1
    /\ pc' = "open_size"
    /\ outcome' = "none"
    /\ startup_failure' = "none"
    /\ cache_size_in_bytes' = c
    /\ buffer_pool_size' = {}
    /\ idx' = 0
    /\ buffer_pool_pointers' = NoPointers
    /\ mapped' = {}
    /\ trace' = <<>>
    /\ reported' = 0
    /\ UNCHANGED <<build, calls, next_tx, next_page, fileVars>>
    /\ region_len' = <<>>
    /\ unmap_len' = <<>>
    /\ UNCHANGED <<storeVars, viewVars>>

\* BufferPool::open, the computation of buffer_pool_size
BufferPool_open_size ==
    /\ pc = "open_size"
    /\ IF npt_overflows(cache_size_in_bytes) /\ build = "debug"
       THEN /\ PanicInOpen
            /\ UNCHANGED <<buffer_pool_size, log_file, heap_file>>
       ELSE /\ buffer_pool_size' = pool_size(cache_size_in_bytes)
            /\ pc' = "open_log"
            /\ UNCHANGED <<outcome, fileVars>>
    /\ UNCHANGED <<build, session, startup_failure, calls,
                   cache_size_in_bytes, idx, buffer_pool_pointers, mapped,
                   next_tx, next_page, trace, reported>>
    /\ UNCHANGED <<storeVars, viewVars, lenVars>>

BufferPool_open_log_truncate(ok) ==
    /\ pc = "open_log"
    /\ IF ok
       THEN /\ log_file' = "present"
            /\ log_open' = TRUE
            /\ pc' = "open_heap"
            /\ UNCHANGED <<outcome, heap_open, startup_failure>>
       ELSE /\ PanicInOpen
            /\ startup_failure' = "log"
            /\ UNCHANGED log_file
    /\ UNCHANGED <<build, session, calls, poolVars, heap_file>>
    /\ log_recs' = IF ok THEN <<>> ELSE log_recs
    /\ UNCHANGED <<heap_pages, viewVars, lenVars>>

\* OpenOptions::new().read(true).write(true).create(true).open("log").unwrap()
BufferPool_open_log(ok) ==
    /\ pc = "open_log"
    /\ IF ok
       THEN /\ log_file' = "present"
            /\ log_open' = TRUE
            /\ pc' = "open_heap"
            /\ UNCHANGED <<outcome, heap_open, startup_failure>>
       ELSE /\ PanicInOpen
            /\ startup_failure' = "log"
            /\ UNCHANGED log_file
    /\ UNCHANGED <<build, session, calls, poolVars, heap_file>>
    /\ UNCHANGED <<storeVars, viewVars, lenVars>>

\* OpenOptions::new().read(true).write(true).create(true).open("heap").unwrap()
BufferPool_open_heap(ok) ==
    /\ pc = "open_heap"
    /\ IF ok
       THEN /\ heap_file' = "present"
            /\ heap_open' = TRUE
            /\ pc' = "mmap"
            /\ UNCHANGED <<outcome, log_open, startup_failure>>
       ELSE /\ PanicInOpen
            /\ startup_failure' = "heap"
            /\ UNCHANGED heap_file
    /\ UNCHANGED <<build, session, calls, poolVars, log_file>>
    /\ UNCHANGED <<storeVars, viewVars, lenVars>>

\* one iteration of the loop  for idx in 0..buffer_pool_pointers.len()
BufferPool_open_mmap(r) ==
    /\ pc = "mmap"
    /\ LET ptr == IF r > 0 THEN fresh_addr ELSE r IN
       /\ mapped' = IF ptr > 0 THEN mapped \cup {ptr} ELSE mapped
       /\ startup_failure' = IF ptr > 0 THEN startup_failure ELSE "mmap"
       /\ IF ptr_is_bad(ptr)
          THEN /\ PanicInOpen
               /\ UNCHANGED <<buffer_pool_pointers, idx>>
          ELSE /\ buffer_pool_pointers' =
                      [buffer_pool_pointers EXCEPT ![idx] = ptr]
               /\ idx' = idx + 1
               /\ pc' = IF idx + 1 = SIZE_CLASSES THEN "return" ELSE "mmap"
               /\ UNCHANGED <<outcome, log_open, heap_open>>
    /\ UNCHANGED <<build, session, calls, cache_size_in_bytes,
                   buffer_pool_size, next_tx, next_page, trace, reported,
                   log_file, heap_file>>
    /\ region_len' =
           IF r > 0
           THEN [a \in DOMAIN region_len \cup {fresh_addr} |->
                    IF a = fresh_addr THEN buffer_pool_size ELSE region_len[a]]
           ELSE region_len
    /\ UNCHANGED <<storeVars, viewVars, unmap_len>>

\* dbg!(BufferPool { next_tx: 0, next_page: 0, .. }) and Db { buffer_pool }
BufferPool_open_return ==
    /\ pc = "return"
    /\ next_tx' = 0
    /\ next_page' = 0
    /\ pc' = "ready"
    /\ outcome' = "ok"
    /\ UNCHANGED <<build, session, startup_failure, calls,
                   cache_size_in_bytes, buffer_pool_size, idx,
                   buffer_pool_pointers, mapped, trace, reported, fileVars>>
    /\ UNCHANGED <<storeVars, viewVars, lenVars>>

\* Db::set is todo!(): it panics, and unwinding main drops the Db
Db_set(key, value) ==
    /\ pc = "ready"
    /\ calls' = Append(calls, [op |-> "set", key |-> key, value |-> value,
                               result |-> "panic"])
    /\ outcome' = "panic"
    /\ pc' = "drop_log"
    /\ UNCHANGED <<build, session, startup_failure, poolVars, fileVars>>
    /\ UNCHANGED <<storeVars, viewVars, lenVars>>

\* Db::get is todo!(): it panics, and unwinding main drops the Db
Db_get(key) ==
    /\ pc = "ready"
    /\ calls' = Append(calls, [op |-> "get", key |-> key, value |-> "",
                               result |-> "panic"])
    /\ outcome' = "panic"
    /\ pc' = "drop_log"
    /\ UNCHANGED <<build, session, startup_failure, poolVars, fileVars>>
    /\ UNCHANGED <<storeVars, viewVars, lenVars>>

\* the Db goes out of scope without a call having panicked
Db_close ==
    /\ pc = "ready"
    /\ pc' = "drop_log"
    /\ UNCHANGED <<build, outcome, session, startup_failure, calls,
                   poolVars, fileVars>>
    /\ UNCHANGED <<storeVars, viewVars, lenVars>>

Syscall(op, ptr, ret) == [op |-> op, ptr |-> ptr, ret |-> ret]

\* self.log.sync_all();  the Result is discarded
Drop_sync_log(ret) ==
    /\ pc = "drop_log"
    /\ trace' = Append(trace, Syscall("sync_log", NULL, ret))
    /\ pc' = "drop_heap"
    /\ UNCHANGED <<build, outcome, session, startup_failure, calls,
                   cache_size_in_bytes, buffer_pool_size, idx,
                   buffer_pool_pointers, mapped, next_tx, next_page,
                   reported, fileVars>>
    /\ UNCHANGED <<storeVars, viewVars, lenVars>>

Drop_sync_heap_skipped(ret) ==
    /\ pc = "drop_heap"
    /\ pc' = "munmap"
    /\ idx' = 0
    /\ UNCHANGED <<build, outcome, session, startup_failure, calls,
                   cache_size_in_bytes, buffer_pool_size, trace,
                   buffer_pool_pointers, mapped, next_tx, next_page,
                   reported, fileVars>>
    /\ UNCHANGED <<storeVars, viewVars, lenVars>>

\* self.heap.sync_all();  the Result is discarded
Drop_sync_heap(ret) ==
    /\ pc = "drop_heap"
    /\ trace' = Append(trace, Syscall("sync_heap", NULL, ret))
    /\ pc' = "munmap"
    /\ idx' = 0
    /\ UNCHANGED <<build, outcome, session, startup_failure, calls,
                   cache_size_in_bytes, buffer_pool_size,
                   buffer_pool_pointers, mapped, next_tx, next_page,
                   reported, fileVars>>
    /\ UNCHANGED <<storeVars, viewVars, lenVars>>

Drop_munmap_abort(ret) ==
    /\ pc = "munmap"
    /\ LET ptr == buffer_pool_pointers[idx] IN
       /\ trace' = Append(trace, Syscall("munmap", ptr, ret))
       /\ mapped' = IF ret = 0 THEN mapped \ {ptr} ELSE mapped
    /\ reported' = IF ret # 0 THEN reported + 1 ELSE reported
    /\ idx' = idx + 1
    /\ pc' = IF idx + 1 = SIZE_CLASSES \/ ret # 0 THEN "dropped" ELSE "munmap"
    /\ UNCHANGED <<build, outcome, session, startup_failure, calls,
                   cache_size_in_bytes, buffer_pool_size,
                   buffer_pool_pointers, next_tx, next_page, fileVars>>
    /\ unmap_len' = Append(unmap_len, buffer_pool_size)
    /\ UNCHANGED <<storeVars, viewVars, region_len>>

Drop_munmap_min_len(ret) ==
    /\ pc = "munmap"
    /\ LET ptr == buffer_pool_pointers[idx] IN
       /\ trace' = Append(trace, Syscall("munmap", ptr, ret))
       /\ mapped' = IF ret = 0 THEN mapped \ {ptr} ELSE mapped
    /\ reported' = IF ret # 0 THEN reported + 1 ELSE reported
    /\ idx' = idx + 1
    /\ pc' = IF idx + 1 = SIZE_CLASSES THEN "dropped" ELSE "munmap"
    /\ UNCHANGED <<build, outcome, session, startup_failure, calls,
                   cache_size_in_bytes, buffer_pool_size,
                   buffer_pool_pointers, next_tx, next_page, fileVars>>
    /\ unmap_len' = Append(unmap_len, KiB64)
    /\ UNCHANGED <<storeVars, viewVars, region_len>>

\* one iteration of  for ptr in &self.buffer_pool_pointers
Drop_munmap(ret) ==
    /\ pc = "munmap"
    /\ LET ptr == buffer_pool_pointers[idx] IN
       /\ trace' = Append(trace, Syscall("munmap", ptr, ret))
       /\ mapped' = IF ret = 0 THEN mapped \ {ptr} ELSE mapped
    /\ reported' = IF ret # 0 THEN reported + 1 ELSE reported
    /\ idx' = idx + 1
    /\ pc' = IF idx + 1 = SIZE_CLASSES THEN "dropped" ELSE "munmap"
    /\ UNCHANGED <<build, outcome, session, startup_failure, calls,
                   cache_size_in_bytes, buffer_pool_size,
                   buffer_pool_pointers, next_tx, next_page, fileVars>>
    /\ unmap_len' = Append(unmap_len, buffer_pool_size)
    /\ UNCHANGED <<storeVars, viewVars, region_len>>

\* drop returns; the fields log and heap are dropped and the process ends
Drop_return ==
    /\ pc = "dropped"
    /\ pc' = "exited"
    /\ log_open' = FALSE
    /\ heap_open' = FALSE
    /\ UNCHANGED <<build, outcome, session, startup_failure, calls,
                   poolVars, log_file, heap_file>>
    /\ UNCHANGED <<storeVars, viewVars, lenVars>>

------------------------------------------------------------------

----------
(* The lifecycle of the buffer pool for every budget and build.            *)

TypeOK ==
    /\ pc \in {"idle", "open_size", "open_log", "open_heap", "mmap",
                "return", "ready", "drop_log", "drop_heap", "munmap",
                "dropped", "exited"}
    /\ build \in {"debug", "release"}
    /\ idx \in 0..SIZE_CLASSES

InitPool ==
    /\ pc = "idle"
    /\ build \in {"debug", "release"}
    /\ outcome = "none"
    /\ session = 0
    /\ startup_failure = "none"
    /\ calls = <<>>
    /\ cache_size_in_bytes = {}
    /\ buffer_pool_size = {}
    /\ idx = 0
    /\ buffer_pool_pointers = NoPointers
    /\ mapped = {}
    /\ next_tx = 0
    /\ next_page = 0
    /\ trace = <<>>
    /\ reported = 0
    /\ log_file \in {"absent", "present"}
    /\ heap_file \in {"absent", "present"}
    /\ log_open = FALSE
    /\ heap_open = FALSE
    /\ log_recs = <<>>
    /\ heap_pages = EmptyHeap
    /\ page = <<>>
    /\ page_src = <<>>
    /\ view_pc = "idle"
    /\ view_result = NoView
    /\ region_len = <<>>
    /\ unmap_len = <<>>

NextPool ==
    \/ \E c \in PoolBudgets : open(c)
    \/ BufferPool_open_size
    \/ \E ok \in BOOLEAN : BufferPool_open_log(ok)
    \/ \E ok \in BOOLEAN : BufferPool_open_heap(ok)
    \/ \E r \in MmapResults : BufferPool_open_mmap(r)
    \/ BufferPool_open_return
    \/ \E k \in Keys, v \in Values : Db_set(k, v)
    \/ \E k \in Keys : Db_get(k)
    \/ Db_close
    \/ \E ret \in {0, -1} : Drop_sync_log(ret)
    \/ \E ret \in {0, -1} : Drop_sync_heap(ret)
    \/ \E ret \in {0, -1} : Drop_munmap(ret)
    \/ Drop_return

SpecPool == InitPool /\ [][NextPool]_vars

----------------------------------------------------------------------------
(* BufferPool::open and drop for every budget, on a system that fails no   *)
(* call.                                                                   *)

NextSize ==
    \/ \E c \in Budgets : open(c)
    \/ BufferPool_open_size
    \/ BufferPool_open_log(TRUE)
    \/ BufferPool_open_heap(TRUE)
    \/ BufferPool_open_mmap(1)
    \/ BufferPool_open_return
    \/ Db_close
    \/ Drop_sync_log(0)
    \/ Drop_sync_heap(0)
    \/ Drop_munmap(0)
    \/ Drop_return

SpecSize == InitPool /\ [][NextSize]_vars

----------------------------------------------------------------------------
(* Page::view on well-formed and on damaged pages.                         *)

InitView ==
    /\ pc = "idle"
    /\ build = "debug"
    /\ outcome = "none"
    /\ session = 0
    /\ startup_failure = "none"
    /\ calls = <<>>
    /\ cache_size_in_bytes = {}
    /\ buffer_pool_size = {}
    /\ idx = 0
    /\ buffer_pool_pointers = NoPointers
    /\ mapped = {}
    /\ next_tx = 0
    /\ next_page = 0
    /\ trace = <<>>
    /\ reported = 0
    /\ log_file = "absent"
    /\ heap_file = "absent"
    /\ log_open = FALSE
    /\ heap_open = FALSE
    /\ log_recs = <<>>
    /\ heap_pages = EmptyHeap
    /\ page_src \in PageSources
    /\ page = Encode(page_src)
    /\ view_pc = "raw"
    /\ view_result = NoView
    /\ region_len = <<>>
    /\ unmap_len = <<>>

NextView ==
    \/ \E fault \in BOOLEAN : View(fault)
    \/ \E n \in 0..MaxPageLen : Truncate(n)
    \/ \E at \in {1, 4}, byte \in 0..3 : Damage(at, byte)

SpecView == InitView /\ [][NextView]_vars

----------------------------------------------------------------------------
(* The engine on stores that already hold a log and a heap.                *)

Init ==
    /\ pc = "idle"
    /\ build = "debug"
    /\ outcome = "none"
    /\ session = 0
    /\ startup_failure = "none"
    /\ calls = <<>>
    /\ cache_size_in_bytes = {}
    /\ buffer_pool_size = {}
    /\ idx = 0
    /\ buffer_pool_pointers = NoPointers
    /\ mapped = {}
    /\ next_tx = 0
    /\ next_page = 0
    /\ trace = <<>>
    /\ reported = 0
    /\ log_recs \in Logs
    /\ \E m \in 0..Len(UpdatesOf(log_recs)) :
           heap_pages = FlushedHeap(log_recs, m)
    /\ log_file \in {"absent", "present"}
    /\ heap_file \in {"absent", "present"}
    /\ log_file = "absent" => log_recs = <<>>
    /\ heap_file = "absent" => heap_pages = EmptyHeap
    /\ log_open = FALSE
    /\ heap_open = FALSE
    /\ page = <<>>
    /\ page_src = <<>>
    /\ view_pc = "idle"
    /\ view_result = NoView
    /\ region_len = <<>>
    /\ unmap_len = <<>>

Next ==
    \/ open(MiB1)
    \/ BufferPool_open_size
    \/ \E ok \in BOOLEAN : BufferPool_open_log(ok)
    \/ \E ok \in BOOLEAN : BufferPool_open_heap(ok)
    \/ \E r \in MmapResults : BufferPool_open_mmap(r)
    \/ BufferPool_open_return
    \/ \E k \in Keys, v \in Values : Db_set(k, v)
    \/ \E k \in Keys : Db_get(k)
    \/ Db_close
    \/ Drop_sync_log(0)
    \/ Drop_sync_heap(0)
    \/ Drop_munmap(0)
    \/ Drop_return

Spec == Init /\ [][Next]_vars

----------------------------------------------------------------------------
(* Properties.                                                             *)

\* the value k holds once the transactions with a Commit record in the log
\* are redone and no other
CommittedValue(k) ==
    RedoOf(log_recs, Committed(log_recs), EmptyHeap)[PageOf(k)][k]

\* C1: every set(k, v) returns, and a get(k) with no later set of k returns
\* v, in the same process or after the engine was closed and reopened.
C1_GetReturnsLastSet ==
    /\ \A i \in DOMAIN calls : calls[i].op = "set" => calls[i].result = "ok"
    /\ \A i, j \in DOMAIN calls :
           /\ i < j
           /\ calls[i].op = "set"
           /\ calls[j].op = "get"
           /\ calls[j].key = calls[i].key
           /\ \A m \in (i + 1)..(j - 1) :
                  ~(calls[m].op = "set" /\ calls[m].key = calls[i].key)
           => calls[j].result = calls[i].value

\* C2: whatever prefix of a log the store holds, once open has returned the
\* heap is the result of the redo records of the transactions with a Commit
\* record in that prefix, and of none of the other updates.
C2_RecoveryAppliesCommitted ==
    pc = "ready" =>
        heap_pages = RedoOf(log_recs, Committed(log_recs), EmptyHeap)

\* C3: a transaction whose Commit record is in the log keeps its effects
\* across a reopen, whether or not its pages had reached the heap: after
\* open, each key holds the value of the last committed update of it.
C3_CommittedSurvivesReopen ==
    pc = "ready" =>
        \A i \in DOMAIN log_recs :
            LET r == log_recs[i] IN
            /\ r.type = "Update"
            /\ r.tx \in Committed(log_recs)
            /\ \A j \in (i + 1)..Len(log_recs) :
                   ~(/\ log_recs[j].type = "Update"
                     /\ log_recs[j].redo.key = r.redo.key
                     /\ log_recs[j].tx \in Committed(log_recs))
            => heap_pages[r.pid][r.redo.key] = r.redo.value

\* C4: a get(k) that follows only sets of k whose transaction never
\* committed returns the value k held before them, or not-found if k was
\* absent.
C4_AbortRestoresPriorValue ==
    \A j \in DOMAIN calls :
        /\ calls[j].op = "get"
        /\ \A i \in 1..(j - 1) :
               calls[i].op = "set" /\ calls[i].key = calls[j].key
               => calls[i].result # "ok"
        => calls[j].result = CommittedValue(calls[j].key)

\* the fields of a page as the layout declares them: an 8 byte header, then
\* child count + 2 key lengths and child count value lengths of 8 bytes
HeaderLen == 8

DeclaredCount(data) == from_le_bytes(data[2], data[3], data[4], 0)

DeclaredKeySum(data) == from_le_bytes(data[5], data[6], data[7], data[8])

TablesEnd(data) == HeaderLen + 8 * (DeclaredCount(data) + 2)
                   + 8 * DeclaredCount(data)

\* the i-th 8 byte length entry, i from 0, of a page that holds its tables
LengthEntry(data, i) ==
    LET at == HeaderLen + 8 * i IN
    from_le_bytes(data[at + 1], data[at + 2], data[at + 3], data[at + 4])

RECURSIVE SumEntries(_, _, _)
SumEntries(data, from, to) ==
    IF from > to THEN 0
    ELSE LengthEntry(data, from) + SumEntries(data, from + 1, to)

KeyLengthTotal(data) == SumEntries(data, 0, DeclaredCount(data) + 1)

ValueLengthTotal(data) ==
    SumEntries(data, DeclaredCount(data) + 2, 2 * DeclaredCount(data) + 1)

\* the declared child count and lengths reach past the end of the bytes
LengthsExceed(data) ==
    \/ Len(data) < HeaderLen
    \/ Len(data) < TablesEnd(data)
    \/ Len(data) < TablesEnd(data) + DeclaredKeySum(data)
                    + ValueLengthTotal(data)

\* the declared key lengths do not add up to the key length sum
KeySumMismatch(data) ==
    /\ Len(data) >= HeaderLen
    /\ Len(data) >= TablesEnd(data)
    /\ KeyLengthTotal(data) # DeclaredKeySum(data)

\* C9: Page::view of a page whose declared lengths reach past its bytes, or
\* whose key lengths do not add up to the key length sum, fails (a panic of
\* a checked index is let pass for the corruption error): it returns no view
\* and reads nothing outside the page.
C9_ViewRejectsDamagedPage ==
    /\ view_pc = "viewed"
    /\ LengthsExceed(page) \/ KeySumMismatch(page)
    => view_result.kind \in {"corrupt", "panic"} /\ ~view_result.oob

\* C10: Page::view of a well-formed page with n entries returns its low and
\* high boundary keys and its n keys and n values in stored order, and the
\* returned lengths add up to the totals the header declares.
C10_ViewReturnsEntries ==
    /\ view_pc = "viewed"
    /\ page = Encode(page_src)
    => /\ view_result.kind = "view"
       /\ view_result.child_count = Len(page_src.keys)
       /\ view_result.lo = page_src.lo
       /\ view_result.hi = page_src.hi
       /\ view_result.keys = page_src.keys
       /\ view_result.values = page_src.values
       /\ SumLen(<<view_result.lo, view_result.hi>> \o view_result.keys)
              = DeclaredKeySum(page)
       /\ SumLen(view_result.values) = ValueLengthTotal(page)

\* C11: in the layout Page::view reads, the key length entries start right
\* after the 8 byte header and share no byte with it, and the value lengths,
\* the keys and the values follow back to back; so the boundary key lengths
\* view reads from a well-formed page are the ones the page declares.
C11_SectionsBackToBack ==
    /\ view_pc = "viewed"
    /\ page = Encode(page_src)
    => LET n == DeclaredCount(page) IN
       /\ key_length_base = HeaderLen
       /\ val_length_base(n) = key_length_base + 8 * (n + 2)
       /\ keys_base(n) = val_length_base(n) + 8 * n
       /\ val_base(n, DeclaredKeySum(page)) = keys_base(n) + DeclaredKeySum(page)
       /\ lo_len(page) = Len(page_src.lo)
       /\ hi_len(page) = Len(page_src.hi)

\* C12: Page::view reports a leaf exactly when the leaf flag, bit 0 of byte
\* 0, is set, and an index page exactly when it is clear.
C12_LeafFlag ==
    /\ view_pc = "viewed"
    /\ view_result.kind = "view"
    => (view_result.is_leaf <=> page[1] # 0)

\* the pages of the heap that hold an entry
PagesInUse == {pid \in PageIds : \E k \in Keys : heap_pages[pid][k] # NotFound}

\* C13: when open has returned, the next transaction id and the next page
\* id are above every id the log and the heap already hold, so that no id
\* issued before the reopen is issued again.
C13_IdsNotReused ==
    pc = "ready" =>
        /\ \A t \in TxsOf(log_recs) : next_tx > t
        /\ \A pid \in PagesInUse : next_page > pid

MunmapsIn(t) == {i \in DOMAIN t : t[i].op = "munmap"}

PointerSet == {buffer_pool_pointers[i] : i \in 0..(SIZE_CLASSES - 1)}

\* after a successful open: SIZE_CLASSES distinct regions are mapped, none
\* null or MAP_FAILED, each with the capacity buffer_pool_size
MappedAfterOpen ==
    pc = "ready" =>
        /\ mapped = PointerSet
        /\ Cardinality(mapped) = SIZE_CLASSES
        /\ NULL \notin PointerSet /\ MAP_FAILED \notin PointerSet
        /\ \A ptr \in PointerSet : region_len[ptr] = buffer_pool_size

\* when drop is through: munmap was called once on each pointer, with the
\* length the region was mapped with
ReleasedOnceEach ==
    pc = "dropped" =>
        /\ Len(unmap_len) = SIZE_CLASSES
        /\ Cardinality(PointerSet) = SIZE_CLASSES
        /\ \A i \in 0..(SIZE_CLASSES - 1) :
               /\ trace[i + 3].ptr = buffer_pool_pointers[i]
               /\ unmap_len[i + 1] = region_len[buffer_pool_pointers[i]]

\* C18 as stated: open maps SIZE_CLASSES regions of one capacity, drop
\* releases each once with that capacity, and after drop no region remains
\* mapped.
C18_MapReleaseBalanced ==
    /\ MappedAfterOpen
    /\ ReleasedOnceEach
    /\ pc = "dropped" => mapped = {}

\* C18 amended: as above, but after drop the regions that remain mapped are
\* exactly those whose munmap call failed.
C18_MapReleaseBalancedUnlessFailed ==
    /\ MappedAfterOpen
    /\ ReleasedOnceEach
    /\ pc = "dropped" =>
           mapped = {trace[i].ptr : i \in {j \in MunmapsIn(trace) :
                                              trace[j].ret # 0}}

C18_Witness ==
    /\ pc = "dropped"
    /\ buffer_pool_size = MiB1
    /\ Len(unmap_len) = SIZE_CLASSES
    /\ mapped = {}

\* C19: when mmap fails for a region in BufferPool::open, no region mapped
\* earlier by that call is still mapped at the moment open fails.
C19_NoRegionLeftOnFailure ==
    pc = "exited" /\ startup_failure = "mmap" => mapped = {}

\* a step of a process that is opening the engine leaves the stores alone
OpenStepKeepsStores ==
    pc \in {"idle", "exited", "open_size", "open_log", "open_heap", "mmap",
            "return"}
    => /\ log_recs' = log_recs
       /\ heap_pages' = heap_pages
       /\ (log_file = "present" => log_file' = "present")
       /\ (heap_file = "present" => heap_file' = "present")

\* C20: while the engine opens, the bytes the log and the heap already hold
\* stay as they are; a store is created, empty, only if it was absent.
C20_OpenKeepsStores == [][OpenStepKeepsStores]_vars

C20_Witness ==
    /\ pc = "ready"
    /\ log_recs # <<>>
    /\ heap_pages # EmptyHeap

IsPowerOfTwo(x) == Cardinality(x) = 1

\* s is the smallest power of two that is at least 64 KiB and at least c
SmallestCovering(s, c) ==
    /\ IsPowerOfTwo(s)
    /\ usize_ge(s, KiB64)
    /\ usize_ge(s, c)
    /\ \A k \in 0..(USIZE_BITS - 1) :
           usize_ge({k}, KiB64) /\ usize_ge({k}, c) => usize_ge({k}, s)

\* BufferPool::open has computed buffer_pool_size in this process
SizeKnown ==
    pc \in {"open_log", "open_heap", "mmap", "return", "ready", "drop_log",
            "drop_heap", "munmap", "dropped"}

\* C5 as stated: for every budget c, the capacity open computes is the
\* smallest power of two that is at least 64 KiB and at least c, also when
\* next_power_of_two overflows.
C5_CapacityCoversEveryBudget ==
    SizeKnown => SmallestCovering(buffer_pool_size, cache_size_in_bytes)

\* C5 amended: for every budget c <= 2^63 the capacity is the smallest power
\* of two that is at least 64 KiB and at least c; for c > 2^63 a debug build
\* panics before it has a capacity and a release build takes 64 KiB.
C5_CapacityCoversBudget ==
    SizeKnown =>
        IF usize_ge({USIZE_BITS - 1}, cache_size_in_bytes)
        THEN SmallestCovering(buffer_pool_size, cache_size_in_bytes)
        ELSE build = "release" /\ buffer_pool_size = KiB64

C5_Witness ==
    /\ pc = "ready"
    /\ cache_size_in_bytes = {3, 20}
    /\ buffer_pool_size = {21}

\* C6: in drop, sync_all has been issued on the log and on the heap before
\* the first munmap; no region is released before both syncs.
C6_SyncBeforeRelease ==
    \A i \in MunmapsIn(trace) :
        /\ \E j \in 1..(i - 1) : trace[j].op = "sync_log"
        /\ \E j \in 1..(i - 1) : trace[j].op = "sync_heap"

C6_Witness ==
    /\ pc = "dropped"
    /\ Cardinality(MunmapsIn(trace)) = SIZE_CLASSES
    /\ mapped = {}

\* C7: when drop has returned, munmap was attempted once for each of the
\* SIZE_CLASSES regions, in order, whichever of the attempts failed; each
\* failure was reported and none kept drop from returning.
C7_ReleaseAttemptedForAll ==
    pc = "dropped" =>
        /\ Cardinality(MunmapsIn(trace)) = SIZE_CLASSES
        /\ \A i \in 0..(SIZE_CLASSES - 1) :
               /\ trace[i + 3].op = "munmap"
               /\ trace[i + 3].ptr = buffer_pool_pointers[i]
        /\ reported = Cardinality({i \in MunmapsIn(trace) : trace[i].ret # 0})

C7_Witness ==
    /\ pc = "dropped"
    /\ trace[3].ret # 0
    /\ trace[SIZE_CLASSES + 2].ret = 0
    /\ reported >= 1

\* C8: when the system fails to open the log or the heap or to map a region,
\* open never returns a handle; a handle that set or get can use holds both
\* files and SIZE_CLASSES mapped regions, none null or MAP_FAILED.
C8_NoHandleAfterStartupFailure ==
    /\ startup_failure # "none" => ~HandleLive
    /\ HandleLive =>
           /\ log_file = "present" /\ log_open
           /\ heap_file = "present" /\ heap_open
           /\ \A i \in 0..(SIZE_CLASSES - 1) :
                  /\ buffer_pool_pointers[i] # NULL
                  /\ buffer_pool_pointers[i] # MAP_FAILED
           /\ pc = "ready" =>
                  \A i \in 0..(SIZE_CLASSES - 1) :
                      buffer_pool_pointers[i] \in mapped

C8_Witness ==
    /\ pc = "exited"
    /\ startup_failure = "mmap"
    /\ Cardinality(mapped) = 2
    /\ calls = <<>>

====
